---------------------------- MODULE Spec2Model ----------------------------
(***************************************************************************)
(* Header-image generator of notion2note_article                           *)
(* (src/src/core/image_generator.py): the adaptive title layout engine.    *)
(*                                                                         *)
(* A character is its Unicode code point (what Python's ord() returns), a  *)
(* string is a sequence of code points.  Python indices are 0-based and    *)
(* are kept 0-based in the variables; s[k] of the code is s[k + 1] here.   *)
(*                                                                         *)
(* Each component is checked under a specification of its own:             *)
(*   SpecWrap      _wrap_text, driving _find_best_break_point              *)
(*   SpecBreak     _find_best_break_point on its own                       *)
(*   SpecSizer     _calculate_font_size                                    *)
(*   SpecLayout    the layout half of _add_title_text                      *)
(*   SpecGradient  _create_gradient_background                             *)
(*   SpecBreakLong _find_best_break_point on long buffers of kanji         *)
(*   SpecRewrap    _wrap_text called several times in a row                *)
(*   SpecHeader    create_header_image: background, font, layout, save     *)
(*   SpecMain      main (src/src/main.py), SpecMainFair with its fairness  *)
(*   SpecPost      post_draft_to_note (src/src/core/note_poster.py)        *)
(***************************************************************************)
EXTENDS Integers, Sequences, FiniteSets

VARIABLES
    pc,             \* position of the running routine
    \* _wrap_text
    text, font, max_width, lines, current_line, i, result,
    \* _find_best_break_point called on its own
    b_current_line, b_full_text, b_next_char_idx, break_pos,
    \* _calculate_font_size
    title, font_size,
    \* _add_title_text
    wrapped_lines, line_heights, total_height, start_y, current_y, drawn,
    \* _create_gradient_background
    y, image,
    \* successive calls of _wrap_text
    run_no, first_result,
    \* create_header_image
    bg_files, font_files, save_ok, h_image, h_font, h_wrapped, h_drawn, h_saved,
    \* main
    environ, articles, art_i, content, temp_dirs, success_count, error_count,
    taken, call_log, exit_code,
    \* post_draft_to_note
    p_env, browser_open, context_open, header_uploaded, title_entered,
    body_entered, save_action, draft_saved, p_result

wrapVars   == <<text, font, max_width, lines, current_line, i, result>>
breakVars  == <<b_current_line, b_full_text, b_next_char_idx, break_pos>>
sizerVars  == <<title, font_size>>
layoutVars == <<wrapped_lines, line_heights, total_height, start_y, current_y, drawn>>
gradVars   == <<y, image>>
sessionVars == <<run_no, first_result>>
headerVars == <<bg_files, font_files, save_ok, h_image, h_font, h_wrapped, h_drawn, h_saved>>
mainVars   == <<environ, articles, art_i, content, temp_dirs, success_count, error_count,
                taken, call_log, exit_code>>
postVars   == <<p_env, browser_open, context_open, header_uploaded, title_entered,
                body_entered, save_action, draft_saved, p_result>>
glueVars   == <<sessionVars, headerVars, mainVars, postVars>>
engineVars == <<wrapVars, breakVars, sizerVars, layoutVars, gradVars>>
vars == <<pc, wrapVars, breakVars, sizerVars, layoutVars, gradVars, glueVars>>

(***************************************************************************)
(* Bounds of the model.                                                    *)
(***************************************************************************)
MaxTitleLen == 4        \* longest enumerated title handed to _wrap_text
MaxWidthBudget == 5     \* largest max_width, in glyph-advance units
MaxRun == 11            \* longest run of one character in a selector buffer
MaxChars == 60          \* longest filler title handed to _calculate_font_size
MaxLines == 3           \* most lines handed to the layout composer

(***************************************************************************)
(* Program constants.                                                      *)
(***************************************************************************)
IMAGE_WIDTH == 1280
IMAGE_HEIGHT == 670
GRADIENT_START == <<102, 126, 234>>
GRADIENT_END == <<118, 75, 162>>

\* The empty string "" where the code holds a character.
NoChar == -1

LINE_START_PROHIBITED ==
    { 93, 12289, 12290, 12297, 12299, 12301, 12303, 12305, 12353, 12355,
      12357, 12359, 12361, 12363, 12364, 12387, 12391, 12392, 12394, 12395,
      12397, 12398, 12399, 12408, 12418, 12419, 12420, 12421, 12423, 12424,
      12430, 12431, 12434, 12449, 12451, 12453, 12455, 12457, 12483, 12515,
      12517, 12519, 12526, 12533, 12534, 12539, 12540, 65281, 65289, 65292,
      65294, 65306, 65307, 65311, 65373, 65374 }

LINE_END_PROHIBITED ==
    { 40, 91, 12296, 12298, 12300, 12302, 12304, 65288, 65371 }

(***************************************************************************)
(* Character classifier.                                                   *)
(***************************************************************************)
IsKanji(char) ==
    (19968 <= char /\ char <= 40959) \/ (13312 <= char /\ char <= 19903)

IsHiragana(char) == 12352 <= char /\ char <= 12447

IsKatakana(char) == 12448 <= char /\ char <= 12543

\* char.isascii() and char.isalpha()
IsAsciiAlpha(char) ==
    (65 <= char /\ char <= 90) \/ (97 <= char /\ char <= 122)

\* char.isdigit(), on the digit blocks the model's characters come from:
\* ASCII digits and fullwidth digits.
IsDigit(char) ==
    (48 <= char /\ char <= 57) \/ (65296 <= char /\ char <= 65305)

GetCharType(char) ==
    IF IsKanji(char) THEN "kanji"
    ELSE IF IsHiragana(char) THEN "hiragana"
    ELSE IF IsKatakana(char) THEN "katakana"
    ELSE IF IsAsciiAlpha(char) THEN "alpha"
    ELSE IF IsDigit(char) THEN "digit"
    ELSE "other"

(***************************************************************************)
(* Break-point selector.                                                   *)
(***************************************************************************)
\* next_char = full_text[next_char_idx] if next_char_idx < len(full_text) else ""
NextChar(full_text, next_char_idx) ==
    IF next_char_idx < Len(full_text) THEN full_text[next_char_idx + 1] ELSE NoChar

\* The character that would start the new line when breaking at pos.
NewLineStart(line, next_char, pos) ==
    IF pos < Len(line) THEN line[pos + 1] ELSE next_char

\* The character that would end the current line when breaking at pos.
LineEnd(line, pos) ==
    IF pos > 0 THEN line[pos] ELSE NoChar

IsRejectedStartOnly(new_line_start, line_end) ==
    new_line_start \in LINE_START_PROHIBITED

IsRejectedEndOnly(new_line_start, line_end) ==
    line_end \in LINE_END_PROHIBITED

\* The two "continue" tests of the candidate loop.
IsRejected(new_line_start, line_end) ==
    \/ new_line_start \in LINE_START_PROHIBITED
    \/ line_end \in LINE_END_PROHIBITED

BreakScoreWeakKanjiPenalty(pos, line_end, new_line_start) ==
    LET end_type   == IF line_end # NoChar THEN GetCharType(line_end) ELSE "other"
        start_type == IF new_line_start # NoChar THEN GetCharType(new_line_start) ELSE "other"
    IN  (IF end_type = "kanji" /\ start_type = "kanji" THEN -10 ELSE 0)
      + (IF end_type = "katakana" /\ start_type = "katakana" THEN -50 ELSE 0)
      + (IF end_type = "alpha" /\ start_type = "alpha" THEN -50 ELSE 0)
      + (IF end_type = "hiragana" /\ start_type = "kanji" THEN 30 ELSE 0)
      + (IF end_type # start_type THEN 10 ELSE 0)
      + pos

\* The score of a surviving candidate (higher is better).
BreakScore(pos, line_end, new_line_start) ==
    LET end_type   == IF line_end # NoChar THEN GetCharType(line_end) ELSE "other"
        start_type == IF new_line_start # NoChar THEN GetCharType(new_line_start) ELSE "other"
    IN  (IF end_type = "kanji" /\ start_type = "kanji" THEN -100 ELSE 0)
      + (IF end_type = "katakana" /\ start_type = "katakana" THEN -50 ELSE 0)
      + (IF end_type = "alpha" /\ start_type = "alpha" THEN -50 ELSE 0)
      + (IF end_type = "hiragana" /\ start_type = "kanji" THEN 30 ELSE 0)
      + (IF end_type # start_type THEN 10 ELSE 0)
      + pos

\* break_candidates after the loop "for pos in range(len(current_line), 0, -1)"
\* has run from pos down to 1: (pos, score) pairs in the order appended.
RECURSIVE BreakCandidates(_, _, _)
BreakCandidates(line, next_char, pos) ==
    IF pos = 0 THEN <<>>
    ELSE LET new_line_start == NewLineStart(line, next_char, pos)
             line_end       == LineEnd(line, pos)
             rest           == BreakCandidates(line, next_char, pos - 1)
         IN  IF IsRejected(new_line_start, line_end)
             THEN rest
             ELSE <<<<pos, BreakScore(pos, line_end, new_line_start)>>>> \o rest

RECURSIVE MaxFrom(_, _, _)
MaxFrom(cands, best, n) ==
    IF n > Len(cands) THEN best
    ELSE MaxFrom(cands, IF cands[n][2] > best[2] THEN cands[n] ELSE best, n + 1)

RECURSIVE LastMaxFrom(_, _, _)
LastMaxFrom(cands, best, n) ==
    IF n > Len(cands) THEN best
    ELSE LastMaxFrom(cands, IF cands[n][2] >= best[2] THEN cands[n] ELSE best, n + 1)

MaxByScoreLast(cands) == LastMaxFrom(cands, cands[1], 2)

\* max(break_candidates, key=lambda x: x[1]): the first element, in list
\* order, whose score is maximal.
MaxByScore(cands) == MaxFrom(cands, cands[1], 2)

NoCandidateFallbackZero(line) == 0

\* "if not break_candidates: return len(current_line)"
NoCandidateFallback(line) == Len(line)

FindBestBreakPoint(line, full_text, next_char_idx) ==
    IF line = <<>> THEN 0
    ELSE LET next_char  == NextChar(full_text, next_char_idx)
             candidates == BreakCandidates(line, next_char, Len(line))
         IN  IF candidates = <<>>
             THEN NoCandidateFallback(line)
             ELSE MaxByScore(candidates)[1]

(***************************************************************************)
(* Glyph measuring.  draw.textbbox belongs to the imaging library; the     *)
(* font is an input of the wrapper.  A font gives every glyph an advance   *)
(* and a text the sum of its glyphs' advances: "mono" gives every glyph 2  *)
(* units, "prop" gives ASCII glyphs 1 unit and all other glyphs 2.         *)
(***************************************************************************)
Fonts == {"mono", "prop"}

GlyphAdvance(f, char) == IF f = "prop" /\ char < 128 THEN 1 ELSE 2

RECURSIVE TextWidth(_, _)
TextWidth(s, f) ==
    IF s = <<>> THEN 0 ELSE GlyphAdvance(f, Head(s)) + TextWidth(Tail(s), f)

(***************************************************************************)
(* Inputs.                                                                 *)
(***************************************************************************)
\* One character of each kind the wrapper tells apart:
\*   28450 kanji, 12354 hiragana, 12364 hiragana particle (line-start
\*   prohibited), 12459 katakana, 97 ASCII letter, 12300 opening bracket
\*   (line-end prohibited).
WrapAlphabet == {28450, 12354, 12364, 12459, 97, 12300}

\* The titles of the module's own test run.
TitleShort == <<30701, 12356, 12479, 12452, 12488, 12523>>

TitleHabit ==
    <<26397, 53, 26178, 36215, 12365, 12398, 32722, 24931, 12364, 31169,
      12434, 22793, 12360, 12383, 35441>>

TitleStudy ==
    <<12503, 12525, 12464, 12521, 12511, 12531, 12464, 21021, 24515, 32773,
      12364, 26368, 30701, 12391, 25104, 38263, 12377, 12427, 21193, 24375,
      27861>>

TestTitles == {TitleShort, TitleHabit, TitleStudy}

SeqsUpTo(S, n) == UNION { [1..m -> S] : m \in 0..n }

WrapTitles == SeqsUpTo(WrapAlphabet, MaxTitleLen) \cup TestTitles

(***************************************************************************)
(* Idle values of the variables of the components a specification does     *)
(* not run.                                                                *)
(***************************************************************************)
IdleWrap ==
    /\ text = <<>> /\ font = "mono" /\ max_width = 0 /\ lines = <<>>
    /\ current_line = <<>> /\ i = 0 /\ result = <<>>

IdleBreak ==
    /\ b_current_line = <<>> /\ b_full_text = <<>> /\ b_next_char_idx = 0
    /\ break_pos = 0

IdleSizer == title = <<>> /\ font_size = 0

IdleLayout ==
    /\ wrapped_lines = <<>> /\ line_heights = <<>> /\ total_height = 0
    /\ start_y = 0 /\ current_y = 0 /\ drawn = <<>>

IdleGradient == y = 0 /\ image = <<>>

IdleSession == run_no = 0 /\ first_result = <<>>

IdleHeader ==
    /\ bg_files = <<>> /\ font_files = <<>> /\ save_ok = FALSE
    /\ h_image = "none" /\ h_font = -1
    /\ h_wrapped = FALSE /\ h_drawn = FALSE /\ h_saved = FALSE

IdleMain ==
    /\ environ = {} /\ articles = <<>> /\ art_i = 0 /\ content = <<>>
    /\ temp_dirs = {} /\ success_count = 0 /\ error_count = 0
    /\ taken = <<>> /\ call_log = <<>> /\ exit_code = -1

IdlePost ==
    /\ p_env = <<>> /\ browser_open = FALSE /\ context_open = FALSE
    /\ header_uploaded = FALSE /\ title_entered = FALSE /\ body_entered = FALSE
    /\ save_action = "none" /\ draft_saved = FALSE /\ p_result = "none"

IdleGlue == IdleSession /\ IdleHeader /\ IdleMain /\ IdlePost

IdleEngine == IdleWrap /\ IdleBreak /\ IdleSizer /\ IdleLayout /\ IdleGradient

(***************************************************************************)
(* Line wrapper: _wrap_text, one action per iteration of its while loop.   *)
(***************************************************************************)
InitWrap ==
    /\ pc = "wrap"
    /\ text \in WrapTitles
    /\ font \in Fonts
    /\ max_width \in 1..MaxWidthBudget
    /\ lines = <<>>
    /\ current_line = <<>>
    /\ i = 0
    /\ result = <<>>
    /\ IdleBreak /\ IdleSizer /\ IdleLayout /\ IdleGradient /\ IdleGlue

\* char = text[i]
Char == text[i + 1]

\* width of test_line = current_line + char
TestWidth == TextWidth(Append(current_line, Char), font)

WrapIdle ==
    UNCHANGED <<text, font, max_width, breakVars, sizerVars, layoutVars, gradVars, glueVars>>

\* width <= max_width
Accumulate ==
    /\ pc = "wrap" /\ i < Len(text)
    /\ TestWidth <= max_width
    /\ current_line' = Append(current_line, Char)
    /\ i' = i + 1
    /\ UNCHANGED <<pc, lines, result>>
    /\ WrapIdle

BreakInsideDropsChar ==
    /\ pc = "wrap" /\ i < Len(text)
    /\ TestWidth > max_width
    /\ current_line # <<>>
    /\ LET bp == FindBestBreakPoint(current_line, text, i)
       IN  /\ bp > 0 /\ bp < Len(current_line)
           /\ lines' = Append(lines, SubSeq(current_line, 1, bp))
           /\ current_line' = SubSeq(current_line, bp + 1, Len(current_line))
    /\ i' = i + 1
    /\ UNCHANGED <<pc, result>>
    /\ WrapIdle

\* overflow, 0 < break_pos < len(current_line)
BreakInside ==
    /\ pc = "wrap" /\ i < Len(text)
    /\ TestWidth > max_width
    /\ current_line # <<>>
    /\ LET bp == FindBestBreakPoint(current_line, text, i)
       IN  /\ bp > 0 /\ bp < Len(current_line)
           /\ lines' = Append(lines, SubSeq(current_line, 1, bp))
           /\ current_line' =
                  Append(SubSeq(current_line, bp + 1, Len(current_line)), Char)
    /\ i' = i + 1
    /\ UNCHANGED <<pc, result>>
    /\ WrapIdle

\* overflow, break_pos is 0 or len(current_line)
BreakAtEnd ==
    /\ pc = "wrap" /\ i < Len(text)
    /\ TestWidth > max_width
    /\ current_line # <<>>
    /\ LET bp == FindBestBreakPoint(current_line, text, i)
       IN  ~(bp > 0 /\ bp < Len(current_line))
    /\ lines' = Append(lines, current_line)
    /\ current_line' = <<Char>>
    /\ i' = i + 1
    /\ UNCHANGED <<pc, result>>
    /\ WrapIdle

\* overflow with an empty buffer: the character alone exceeds max_width
SeedOversize ==
    /\ pc = "wrap" /\ i < Len(text)
    /\ TestWidth > max_width
    /\ current_line = <<>>
    /\ current_line' = <<Char>>
    /\ i' = i + 1
    /\ UNCHANGED <<pc, lines, result>>
    /\ WrapIdle

WrapReturnLines(ls, t) == ls

\* return lines if lines else [text]
WrapReturn(ls, t) == IF ls # <<>> THEN ls ELSE <<t>>

\* the loop has ended: flush the buffer and return
WrapFinish ==
    /\ pc = "wrap" /\ i >= Len(text)
    /\ lines' = IF current_line # <<>> THEN Append(lines, current_line) ELSE lines
    /\ result' = WrapReturn(lines', text)
    /\ pc' = "wrapped"
    /\ UNCHANGED <<current_line, i>>
    /\ WrapIdle

NextWrap ==
    \/ Accumulate
    \/ BreakInside
    \/ BreakAtEnd
    \/ SeedOversize
    \/ WrapFinish

SpecWrap == InitWrap /\ [][NextWrap]_vars


(***************************************************************************)
(* Break-point selector on its own: one call of _find_best_break_point.    *)
(***************************************************************************)
\* One character of each class and of each prohibition table:
\*   28450 kanji, 12354 hiragana, 12364 hiragana particle (line-start
\*   prohibited), 12459 katakana, 97 ASCII letter, 53 digit, 12300 opening
\*   bracket (line-end prohibited), 12301 closing bracket (line-start
\*   prohibited).
BreakAlphabet == {28450, 12354, 12364, 12459, 97, 53, 12300, 12301}

Run(char, n) == [k \in 1..n |-> char]

\* Buffers made of two runs of one character each, empty runs included.
BreakBuffers ==
    { Run(c1, n1) \o Run(c2, n2) :
        <<c1, n1, c2, n2>> \in
            BreakAlphabet \X (0..MaxRun) \X BreakAlphabet \X (0..MaxRun) }

InitBreak ==
    /\ pc = "select"
    /\ b_current_line \in BreakBuffers
    /\ b_next_char_idx = Len(b_current_line)
    /\ \E next \in BreakAlphabet \cup {NoChar} :
           b_full_text = IF next = NoChar THEN b_current_line
                                          ELSE Append(b_current_line, next)
    /\ break_pos = 0
    /\ IdleWrap /\ IdleSizer /\ IdleLayout /\ IdleGradient /\ IdleGlue

Select ==
    /\ pc = "select"
    /\ break_pos' = FindBestBreakPoint(b_current_line, b_full_text, b_next_char_idx)
    /\ pc' = "selected"
    /\ UNCHANGED <<b_current_line, b_full_text, b_next_char_idx>>
    /\ UNCHANGED <<wrapVars, sizerVars, layoutVars, gradVars, glueVars>>

NextBreak == Select

SpecBreak == InitBreak /\ [][NextBreak]_vars

(***************************************************************************)
(* Break-point selector on long buffers: up to two characters of any kind, *)
(* a run of kanji, and up to one character of any kind.                    *)
(***************************************************************************)
MaxBufferLen == 50      \* longest buffer handed to _find_best_break_point

LongBuffers ==
    { b \in { pre \o Run(28450, n) \o suf :
                <<pre, n, suf>> \in SeqsUpTo(BreakAlphabet, 2) \X (0..MaxBufferLen)
                                      \X SeqsUpTo(BreakAlphabet, 1) } :
        Len(b) <= MaxBufferLen }

InitBreakLong ==
    /\ pc = "select"
    /\ b_current_line \in LongBuffers
    /\ b_next_char_idx = Len(b_current_line)
    /\ \E next \in BreakAlphabet \cup {NoChar} :
           b_full_text = IF next = NoChar THEN b_current_line
                                          ELSE Append(b_current_line, next)
    /\ break_pos = 0
    /\ IdleWrap /\ IdleSizer /\ IdleLayout /\ IdleGradient /\ IdleGlue

SpecBreakLong == InitBreakLong /\ [][NextBreak]_vars

(***************************************************************************)
(* Adaptive sizer: one call of _calculate_font_size.                       *)
(***************************************************************************)
Utf8Len(char) ==
    IF char < 128 THEN 1 ELSE IF char < 2048 THEN 2 ELSE IF char < 65536 THEN 3 ELSE 4

RECURSIVE ByteLen(_)
ByteLen(t) == IF t = <<>> THEN 0 ELSE Utf8Len(Head(t)) + ByteLen(Tail(t))

FontSizeForLength(length) ==
    IF length <= 10 THEN 120
    ELSE IF length <= 15 THEN 100
    ELSE IF length <= 20 THEN 85
    ELSE IF length <= 25 THEN 70
    ELSE IF length <= 30 THEN 60
    ELSE 50

CalculateFontSizeStrict(t) ==
    LET length == Len(t)
    IN  IF length < 10 THEN 120
        ELSE IF length < 15 THEN 100
        ELSE IF length < 20 THEN 85
        ELSE IF length < 25 THEN 70
        ELSE IF length < 30 THEN 60
        ELSE 50

CalculateFontSizeOfBytes(t) == FontSizeForLength(ByteLen(t))

\* length = len(title), then the if/elif chain
CalculateFontSize(t) == FontSizeForLength(Len(t))

\* The test titles, and a title of every length up to MaxChars.
SizerTitles == TestTitles \cup { Run(12354, n) : n \in 0..MaxChars }

InitSizer ==
    /\ pc = "size"
    /\ title \in SizerTitles
    /\ font_size = 0
    /\ IdleWrap /\ IdleBreak /\ IdleLayout /\ IdleGradient /\ IdleGlue

CalculateSize ==
    /\ pc = "size"
    /\ font_size' = CalculateFontSize(title)
    /\ pc' = "sized"
    /\ UNCHANGED <<title, wrapVars, breakVars, layoutVars, gradVars, glueVars>>

NextSizer == CalculateSize

SpecSizer == InitSizer /\ [][NextSizer]_vars

(***************************************************************************)
(* Layout composer: _add_title_text from the wrapped lines on.  A line is  *)
(* what draw.textbbox measures of it: its width bbox[2] - bbox[0] and its  *)
(* height bbox[3] - bbox[1].                                               *)
(***************************************************************************)
LineWidths == {0, 501, 1400}

LineHeights == {0, 85, 351}

LineMetrics == [w : LineWidths, h : LineHeights]

\* _wrap_text returns at least one line.
LayoutInputs == UNION { [1..n -> LineMetrics] : n \in 1..MaxLines }

RECURSIVE Sum(_)
Sum(s) == IF s = <<>> THEN 0 ELSE Head(s) + Sum(Tail(s))

\* sum(line_heights) + (len(wrapped_lines) - 1) * 20
TotalHeight(heights, n) == Sum(heights) + (n - 1) * 20

\* (IMAGE_HEIGHT - total_height) // 2
StartY(total) == (IMAGE_HEIGHT - total) \div 2

\* (IMAGE_WIDTH - text_width) // 2
LineX(text_width) == (IMAGE_WIDTH - text_width) \div 2

NextYNoSpacing(cy, height) == cy + height

\* current_y += line_heights[i] + 20
NextY(cy, height) == cy + height + 20

InitLayout ==
    /\ pc = "measure"
    /\ wrapped_lines \in LayoutInputs
    /\ line_heights = <<>>
    /\ total_height = 0
    /\ start_y = 0
    /\ current_y = 0
    /\ drawn = <<>>
    /\ IdleWrap /\ IdleBreak /\ IdleSizer /\ IdleGradient /\ IdleGlue

LayoutIdle ==
    UNCHANGED <<wrapped_lines, wrapVars, breakVars, sizerVars, gradVars, glueVars>>

\* one iteration of the loop that fills line_heights
MeasureLine ==
    /\ pc = "measure"
    /\ Len(line_heights) < Len(wrapped_lines)
    /\ line_heights' = Append(line_heights, wrapped_lines[Len(line_heights) + 1].h)
    /\ UNCHANGED <<pc, total_height, start_y, current_y, drawn>>
    /\ LayoutIdle

\* total_height, start_y and the initial current_y
CenterBlock ==
    /\ pc = "measure"
    /\ Len(line_heights) = Len(wrapped_lines)
    /\ total_height' = TotalHeight(line_heights, Len(wrapped_lines))
    /\ start_y' = StartY(total_height')
    /\ current_y' = start_y'
    /\ pc' = "draw"
    /\ UNCHANGED <<line_heights, drawn>>
    /\ LayoutIdle

\* one iteration of the drawing loop
DrawLine ==
    /\ pc = "draw"
    /\ Len(drawn) < Len(wrapped_lines)
    /\ LET n    == Len(drawn) + 1
           line == wrapped_lines[n]
       IN  /\ drawn' = Append(drawn, [x |-> LineX(line.w), y |-> current_y, line |-> n])
           /\ current_y' = NextY(current_y, line_heights[n])
    /\ UNCHANGED <<pc, line_heights, total_height, start_y>>
    /\ LayoutIdle

LayoutReturn ==
    /\ pc = "draw"
    /\ Len(drawn) = Len(wrapped_lines)
    /\ pc' = "laid_out"
    /\ UNCHANGED <<line_heights, total_height, start_y, current_y, drawn>>
    /\ LayoutIdle

NextLayout ==
    \/ MeasureLine
    \/ CenterBlock
    \/ DrawLine
    \/ LayoutReturn

SpecLayout == InitLayout /\ [][NextLayout]_vars

(***************************************************************************)
(* Gradient background: _create_gradient_background, one action per row.   *)
(* image[k] is the colour draw.line gives row k - 1.                       *)
(***************************************************************************)
\* int(x) of a quotient a / b, b > 0: truncation toward zero
IntOfQuotient(a, b) == IF a >= 0 THEN a \div b ELSE -((-a) \div b)

GradientChannelNextRow(c, row) ==
    IntOfQuotient(GRADIENT_START[c] * IMAGE_HEIGHT
                    + (GRADIENT_END[c] - GRADIENT_START[c]) * (row + 1),
                  IMAGE_HEIGHT)

\* int(GRADIENT_START[c] + (GRADIENT_END[c] - GRADIENT_START[c]) * ratio) with
\* ratio = row / IMAGE_HEIGHT.  The code computes in floating point; the
\* exact value is an integer only in rows 0 and IMAGE_HEIGHT / 2, where the
\* floating-point result is exact, and lies at least 1 / IMAGE_HEIGHT from
\* an integer in every other row, so int() returns the exact truncation.
GradientChannel(c, row) ==
    IntOfQuotient(GRADIENT_START[c] * IMAGE_HEIGHT
                    + (GRADIENT_END[c] - GRADIENT_START[c]) * row,
                  IMAGE_HEIGHT)

InitGradient ==
    /\ pc = "gradient"
    /\ y = 0
    /\ image = <<>>
    /\ IdleWrap /\ IdleBreak /\ IdleSizer /\ IdleLayout /\ IdleGlue

GradientRow ==
    /\ pc = "gradient"
    /\ y < IMAGE_HEIGHT
    /\ image' = Append(image, [c \in 1..3 |-> GradientChannel(c, y)])
    /\ y' = y + 1
    /\ UNCHANGED <<pc, wrapVars, breakVars, sizerVars, layoutVars, glueVars>>

GradientReturn ==
    /\ pc = "gradient"
    /\ y >= IMAGE_HEIGHT
    /\ pc' = "gradient_done"
    /\ UNCHANGED <<y, image, wrapVars, breakVars, sizerVars, layoutVars, glueVars>>

NextGradient ==
    \/ GradientRow
    \/ GradientReturn

SpecGradient == InitGradient /\ [][NextGradient]_vars

(***************************************************************************)
(* create_header_image: the background resolver, the font fallback chain   *)
(* of _add_title_text, and the save.  A candidate file is "absent" (no such *)
(* path), or exists and is good ("valid" image, font that "loads"), or     *)
(* exists and cannot be read ("corrupt" image, "broken" font).             *)
(***************************************************************************)
MaxPresentFonts == 2    \* most font candidate paths that exist at once

\* for ext in [".png", ".jpg", ".jpeg"]
BackgroundExts == <<".png", ".jpg", ".jpeg">>

\* len(font_paths)
NumFontPaths == 15

\* ImageFont.load_default()
DefaultFont == 0

\* no font obtained (yet)
NoFont == -1

BackgroundFiles == [1..Len(BackgroundExts) -> {"absent", "valid", "corrupt"}]

\* Every assignment of the candidate font paths in which at most
\* MaxPresentFonts paths exist.
FontFiles ==
    { [k \in 1..NumFontPaths |->
          IF \E j \in DOMAIN c : c[j][1] = k
          THEN c[CHOOSE j \in DOMAIN c :
                     c[j][1] = k /\ \A j2 \in DOMAIN c : c[j2][1] = k => j <= j2][2]
          ELSE "absent"] :
      c \in [1..MaxPresentFonts -> (1..NumFontPaths) \X {"absent", "loads", "broken"}] }

\* The loop of _load_background_image from candidate k on: the first path
\* that exists is opened, and Image.open raises on a file it cannot read.
RECURSIVE LoadFrom(_, _)
LoadFrom(files, k) ==
    IF k > Len(BackgroundExts) THEN "gradient"
    ELSE IF files[k] = "absent" THEN LoadFrom(files, k + 1)
    ELSE IF files[k] = "valid" THEN BackgroundExts[k]
    ELSE "raised"

LoadBackgroundImage(files) == LoadFrom(files, 1)

\* The loop of _get_font from candidate k on: a path that does not exist is
\* skipped, one that raises OSError/IOError in ImageFont.truetype is skipped.
RECURSIVE FontFrom(_, _)
FontFrom(files, k) ==
    IF k > NumFontPaths THEN DefaultFont
    ELSE IF files[k] = "loads" THEN k
    ELSE FontFrom(files, k + 1)

GetFontOrNone(files) ==
    LET f == FontFrom(files, 1) IN IF f = DefaultFont THEN NoFont ELSE f

GetFont(files) == FontFrom(files, 1)

InitHeader ==
    /\ pc = "header_load"
    /\ bg_files \in BackgroundFiles
    /\ font_files \in FontFiles
    /\ save_ok \in BOOLEAN
    /\ h_image = "none"
    /\ h_font = NoFont
    /\ h_wrapped = FALSE
    /\ h_drawn = FALSE
    /\ h_saved = FALSE
    /\ IdleEngine /\ IdleSession /\ IdleMain /\ IdlePost

HeaderIdle ==
    UNCHANGED <<bg_files, font_files, save_ok, engineVars, sessionVars, mainVars, postVars>>

\* image = _load_background_image() returns
LoadBackground ==
    /\ pc = "header_load"
    /\ LoadBackgroundImage(bg_files) # "raised"
    /\ h_image' = LoadBackgroundImage(bg_files)
    /\ pc' = "header_title"
    /\ UNCHANGED <<h_font, h_wrapped, h_drawn, h_saved>>
    /\ HeaderIdle

\* image = _load_background_image() raises, and so does create_header_image
LoadBackgroundRaises ==
    /\ pc = "header_load"
    /\ LoadBackgroundImage(bg_files) = "raised"
    /\ h_image' = "raised"
    /\ pc' = "header_raised"
    /\ UNCHANGED <<h_font, h_wrapped, h_drawn, h_saved>>
    /\ HeaderIdle

\* _add_title_text(image, title): the font is obtained, the title is
\* wrapped and every line drawn
AddTitleText ==
    /\ pc = "header_title"
    /\ h_font' = GetFont(font_files)
    /\ h_wrapped' = TRUE
    /\ h_drawn' = TRUE
    /\ pc' = "header_save"
    /\ UNCHANGED <<h_image, h_saved>>
    /\ HeaderIdle

\* image.save(output_path, "PNG", quality=95) returns
SaveImage ==
    /\ pc = "header_save"
    /\ save_ok
    /\ h_saved' = TRUE
    /\ pc' = "header_returned"
    /\ UNCHANGED <<h_image, h_font, h_wrapped, h_drawn>>
    /\ HeaderIdle

\* image.save raises (the output path cannot be written)
SaveImageRaises ==
    /\ pc = "header_save"
    /\ ~save_ok
    /\ pc' = "header_raised"
    /\ UNCHANGED <<h_image, h_font, h_wrapped, h_drawn, h_saved>>
    /\ HeaderIdle

NextHeader ==
    \/ LoadBackground
    \/ LoadBackgroundRaises
    \/ AddTitleText
    \/ SaveImage
    \/ SaveImageRaises

SpecHeader == InitHeader /\ [][NextHeader]_vars

(***************************************************************************)
(* main (src/src/main.py).  The collaborators it calls are taken at their  *)
(* interface: each call either returns or raises an Exception.  call_log   *)
(* lists the calls made, as <<article number, function, outcome>>; taken   *)
(* lists the articles the loop has taken up.  tempfile.mkdtemp and print   *)
(* are taken to succeed.                                                   *)
(***************************************************************************)
MaxArticles == 3        \* most articles fetch_ready_articles returns

RequiredVars == {"NOTION_TOKEN", "NOTION_DATABASE_ID", "OPENAI_API_KEY"}

\* str.isspace() of one character
IsSpace(char) ==
    char \in (9..13) \cup (28..32) \cup {133, 160, 5760} \cup (8192..8202)
               \cup {8232, 8233, 8239, 8287, 12288}

RECURSIVE LStrip(_)
LStrip(s) == IF s # <<>> /\ IsSpace(Head(s)) THEN LStrip(Tail(s)) ELSE s

RECURSIVE RStrip(_)
RStrip(s) ==
    IF s # <<>> /\ IsSpace(s[Len(s)]) THEN RStrip(SubSeq(s, 1, Len(s) - 1)) ELSE s

\* content.strip()
Strip(s) == RStrip(LStrip(s))

ContentIsEmptyString(c) == c = <<>>

\* not content.strip()
ContentIsBlank(c) == Strip(c) = <<>>

\* "", " \n", an ideographic space, "a", " a "
Contents == { <<>>, <<32, 10>>, <<12288>>, <<97>>, <<32, 97, 32>> }

ArticleLists == UNION { [1..n -> [content : Contents]] : n \in 0..MaxArticles }

InitMain ==
    /\ pc = "main_start"
    /\ environ \in SUBSET RequiredVars
    /\ articles = <<>>
    /\ art_i = 0
    /\ content = <<>>
    /\ temp_dirs = {}
    /\ success_count = 0
    /\ error_count = 0
    /\ taken = <<>>
    /\ call_log = <<>>
    /\ exit_code = -1
    /\ IdleEngine /\ IdleSession /\ IdleHeader /\ IdlePost

MainIdle == UNCHANGED <<environ, engineVars, sessionVars, headerVars, postVars>>

Logged(function, outcome) == Append(call_log, <<art_i, function, outcome>>)

\* missing_vars is not empty: return 1
MissingEnv ==
    /\ pc = "main_start"
    /\ environ # RequiredVars
    /\ exit_code' = 1
    /\ pc' = "main_returned"
    /\ UNCHANGED <<articles, art_i, content, temp_dirs, success_count, error_count,
                   taken, call_log>>
    /\ MainIdle

\* fetch_ready_articles raises (an HTTP error): main raises
FetchRaises ==
    /\ pc = "main_start"
    /\ environ = RequiredVars
    /\ pc' = "main_raised"
    /\ UNCHANGED <<articles, art_i, content, temp_dirs, success_count, error_count,
                   taken, call_log, exit_code>>
    /\ MainIdle

\* articles = fetch_ready_articles(database_id) is empty: return 0
FetchNone ==
    /\ pc = "main_start"
    /\ environ = RequiredVars
    /\ articles' = <<>>
    /\ exit_code' = 0
    /\ pc' = "main_returned"
    /\ UNCHANGED <<art_i, content, temp_dirs, success_count, error_count,
                   taken, call_log>>
    /\ MainIdle

\* articles = fetch_ready_articles(database_id); success_count = error_count = 0
FetchSome ==
    /\ pc = "main_start"
    /\ environ = RequiredVars
    /\ \E list \in ArticleLists : list # <<>> /\ articles' = list
    /\ success_count' = 0
    /\ error_count' = 0
    /\ pc' = "loop"
    /\ UNCHANGED <<art_i, content, temp_dirs, taken, call_log, exit_code>>
    /\ MainIdle

\* the for loop takes the next article; temp_dir = tempfile.mkdtemp(...);
\* content = article["content"]
StartArticle ==
    /\ pc = "loop"
    /\ art_i < Len(articles)
    /\ art_i' = art_i + 1
    /\ taken' = Append(taken, art_i')
    /\ temp_dirs' = temp_dirs \cup {art_i'}
    /\ content' = articles[art_i'].content
    /\ pc' = "content"
    /\ UNCHANGED <<articles, success_count, error_count, call_log, exit_code>>
    /\ MainIdle

SkipEmptyBypassesFinally ==
    /\ pc = "content"
    /\ ContentIsBlank(content)
    /\ error_count' = error_count + 1
    /\ pc' = "loop"
    /\ UNCHANGED <<articles, art_i, content, temp_dirs, success_count, taken,
                   call_log, exit_code>>
    /\ MainIdle

\* if not content.strip(): error_count += 1; continue
SkipEmpty ==
    /\ pc = "content"
    /\ ContentIsBlank(content)
    /\ error_count' = error_count + 1
    /\ pc' = "finally"
    /\ UNCHANGED <<articles, art_i, content, temp_dirs, success_count, taken,
                   call_log, exit_code>>
    /\ MainIdle

\* A call of a collaborator: it returns and main goes on to position next,
\* or it raises and main goes to its except branch.
CallReturns(function, next) ==
    /\ call_log' = Logged(function, "returned")
    /\ pc' = next
    /\ UNCHANGED <<articles, art_i, content, temp_dirs, success_count, error_count,
                   taken, exit_code>>
    /\ MainIdle

CallRaises(function) ==
    /\ call_log' = Logged(function, "raised")
    /\ pc' = "except"
    /\ UNCHANGED <<articles, art_i, content, temp_dirs, success_count, error_count,
                   taken, exit_code>>
    /\ MainIdle

\* title, body = format_article(content, article["mode"])
FormatReturns ==
    /\ pc = "content"
    /\ ~ContentIsBlank(content)
    /\ CallReturns("format_article", "header")

FormatRaises ==
    /\ pc = "content"
    /\ ~ContentIsBlank(content)
    /\ CallRaises("format_article")

\* create_header_image(title, image_path)
HeaderReturns ==
    /\ pc = "header"
    /\ CallReturns("create_header_image", "post")

HeaderRaises ==
    /\ pc = "header"
    /\ CallRaises("create_header_image")

PostRaisesIgnored ==
    /\ pc = "post"
    /\ call_log' = Logged("post_draft_to_note", "raised")
    /\ pc' = "mark"
    /\ UNCHANGED <<articles, art_i, content, temp_dirs, success_count, error_count,
                   taken, exit_code>>
    /\ MainIdle

\* post_draft_to_note(title, body, header_image_path=image_path)
PostReturns ==
    /\ pc = "post"
    /\ CallReturns("post_draft_to_note", "mark")

PostRaises ==
    /\ pc = "post"
    /\ CallRaises("post_draft_to_note")

\* mark_as_done(article["id"]); success_count += 1
MarkReturns ==
    /\ pc = "mark"
    /\ call_log' = Logged("mark_as_done", "returned")
    /\ success_count' = success_count + 1
    /\ pc' = "finally"
    /\ UNCHANGED <<articles, art_i, content, temp_dirs, error_count, taken, exit_code>>
    /\ MainIdle

MarkRaises ==
    /\ pc = "mark"
    /\ CallRaises("mark_as_done")

ExceptEndsRun ==
    /\ pc = "except"
    /\ error_count' = error_count + 1
    /\ temp_dirs' = temp_dirs \ {art_i}
    /\ exit_code' = 1
    /\ pc' = "main_returned"
    /\ UNCHANGED <<articles, art_i, content, success_count, taken, call_log>>
    /\ MainIdle

ExceptNotCounted ==
    /\ pc = "except"
    /\ pc' = "finally"
    /\ UNCHANGED <<articles, art_i, content, temp_dirs, success_count, error_count,
                   taken, call_log, exit_code>>
    /\ MainIdle

\* except Exception: error_count += 1; continue
Except ==
    /\ pc = "except"
    /\ error_count' = error_count + 1
    /\ pc' = "finally"
    /\ UNCHANGED <<articles, art_i, content, temp_dirs, success_count, taken,
                   call_log, exit_code>>
    /\ MainIdle

\* finally: shutil.rmtree(temp_dir, ignore_errors=True); on to the next
\* iteration
Finally ==
    /\ pc = "finally"
    /\ temp_dirs' = temp_dirs \ {art_i}
    /\ pc' = "loop"
    /\ UNCHANGED <<articles, art_i, content, success_count, error_count, taken,
                   call_log, exit_code>>
    /\ MainIdle

\* the loop is exhausted: return 0 if error_count == 0 else 1
LoopEnd ==
    /\ pc = "loop"
    /\ art_i >= Len(articles)
    /\ exit_code' = IF error_count = 0 THEN 0 ELSE 1
    /\ pc' = "main_returned"
    /\ UNCHANGED <<articles, art_i, content, temp_dirs, success_count, error_count,
                   taken, call_log>>
    /\ MainIdle

NextMain ==
    \/ MissingEnv
    \/ FetchRaises
    \/ FetchNone
    \/ FetchSome
    \/ StartArticle
    \/ SkipEmpty
    \/ FormatReturns
    \/ FormatRaises
    \/ HeaderReturns
    \/ HeaderRaises
    \/ PostReturns
    \/ PostRaises
    \/ MarkReturns
    \/ MarkRaises
    \/ Except
    \/ Finally
    \/ LoopEnd

SpecMain == InitMain /\ [][NextMain]_vars

\* main is sequential code: whenever it can take a step it does.
SpecMainFair == SpecMain /\ WF_vars(NextMain)

(***************************************************************************)
(* post_draft_to_note (src/src/core/note_poster.py).  p_env is what the    *)
(* call meets: the session state file, the header image path, and how the  *)
(* editor page answers each step.  p_result is "True" for the returned     *)
(* value True and "raised" for an exception leaving the function; the      *)
(* function has no statement that returns False.                           *)
(***************************************************************************)
PostEnvs ==
    [ state_file     : {"absent", "valid", "corrupt"},
      header_path    : BOOLEAN,
      navigation     : {"editor", "no_editor", "login", "goto_raises"},
      upload         : {"uploads", "raises"},
      title_input    : {"found", "not_found", "fill_raises"},
      body_editor    : {"entered", "not_found", "all_methods_fail", "click_raises"},
      save           : {"button", "no_button", "click_raises", "shortcut_raises"},
      shortcut_saves : BOOLEAN ]

InitPost ==
    /\ pc = "post_start"
    /\ p_env \in PostEnvs
    /\ browser_open = FALSE
    /\ context_open = FALSE
    /\ header_uploaded = FALSE
    /\ title_entered = FALSE
    /\ body_entered = FALSE
    /\ save_action = "none"
    /\ draft_saved = FALSE
    /\ p_result = "none"
    /\ IdleEngine /\ IdleSession /\ IdleHeader /\ IdleMain

PostIdle == UNCHANGED <<p_env, engineVars, sessionVars, headerVars, mainVars>>

\* if not os.path.exists(state_file): raise FileNotFoundError
StateFileMissing ==
    /\ pc = "post_start"
    /\ p_env.state_file = "absent"
    /\ p_result' = "raised"
    /\ pc' = "post_done"
    /\ UNCHANGED <<browser_open, context_open, header_uploaded, title_entered,
                   body_entered, save_action, draft_saved>>
    /\ PostIdle

\* browser = p.chromium.launch(headless=False)
Launch ==
    /\ pc = "post_start"
    /\ p_env.state_file # "absent"
    /\ browser_open' = TRUE
    /\ pc' = "post_context"
    /\ UNCHANGED <<context_open, header_uploaded, title_entered, body_entered,
                   save_action, draft_saved, p_result>>
    /\ PostIdle

\* context = browser.new_context(**context_options); page = context.new_page()
NewContext ==
    /\ pc = "post_context"
    /\ p_env.state_file = "valid"
    /\ context_open' = TRUE
    /\ pc' = "post_navigate"
    /\ UNCHANGED <<browser_open, header_uploaded, title_entered, body_entered,
                   save_action, draft_saved, p_result>>
    /\ PostIdle

\* The state file is not valid JSON: the json.load of lines 54-59 only
\* warns, new_context(storage_state=...) raises before the try block, and
\* leaving the with block stops Playwright and the browser it launched.
NewContextRaises ==
    /\ pc = "post_context"
    /\ p_env.state_file = "corrupt"
    /\ browser_open' = FALSE
    /\ p_result' = "raised"
    /\ pc' = "post_done"
    /\ UNCHANGED <<context_open, header_uploaded, title_entered, body_entered,
                   save_action, draft_saved>>
    /\ PostIdle

\* _navigate_to_new_article(page) returns, with or without an editor found
Navigate ==
    /\ pc = "post_navigate"
    /\ p_env.navigation \in {"editor", "no_editor"}
    /\ pc' = "post_upload"
    /\ UNCHANGED <<browser_open, context_open, header_uploaded, title_entered,
                   body_entered, save_action, draft_saved, p_result>>
    /\ PostIdle

\* page.goto raises, or the page was redirected to /login (RuntimeError)
NavigateRaises ==
    /\ pc = "post_navigate"
    /\ p_env.navigation \in {"login", "goto_raises"}
    /\ pc' = "post_except"
    /\ UNCHANGED <<browser_open, context_open, header_uploaded, title_entered,
                   body_entered, save_action, draft_saved, p_result>>
    /\ PostIdle

\* header_image_path is None or names no file
NoHeaderImage ==
    /\ pc = "post_upload"
    /\ ~p_env.header_path
    /\ pc' = "post_title"
    /\ UNCHANGED <<browser_open, context_open, header_uploaded, title_entered,
                   body_entered, save_action, draft_saved, p_result>>
    /\ PostIdle

\* _upload_header_image(page, header_image_path)
UploadHeaderImage ==
    /\ pc = "post_upload"
    /\ p_env.header_path
    /\ p_env.upload = "uploads"
    /\ header_uploaded' = TRUE
    /\ pc' = "post_title"
    /\ UNCHANGED <<browser_open, context_open, title_entered, body_entered,
                   save_action, draft_saved, p_result>>
    /\ PostIdle

UploadFailureRaises ==
    /\ pc = "post_upload"
    /\ p_env.header_path
    /\ p_env.upload = "raises"
    /\ pc' = "post_except"
    /\ UNCHANGED <<browser_open, context_open, header_uploaded, title_entered,
                   body_entered, save_action, draft_saved, p_result>>
    /\ PostIdle

\* except Exception: print a warning, continue without header image
UploadFailureIgnored ==
    /\ pc = "post_upload"
    /\ p_env.header_path
    /\ p_env.upload = "raises"
    /\ pc' = "post_title"
    /\ UNCHANGED <<browser_open, context_open, header_uploaded, title_entered,
                   body_entered, save_action, draft_saved, p_result>>
    /\ PostIdle

\* _input_article_content: the title; a missing title input is only warned
\* about
InputTitle ==
    /\ pc = "post_title"
    /\ p_env.title_input \in {"found", "not_found"}
    /\ title_entered' = (p_env.title_input = "found")
    /\ pc' = "post_body"
    /\ UNCHANGED <<browser_open, context_open, header_uploaded, body_entered,
                   save_action, draft_saved, p_result>>
    /\ PostIdle

\* title_input.first.click() or .fill(title) raises
InputTitleRaises ==
    /\ pc = "post_title"
    /\ p_env.title_input = "fill_raises"
    /\ pc' = "post_except"
    /\ UNCHANGED <<browser_open, context_open, header_uploaded, title_entered,
                   body_entered, save_action, draft_saved, p_result>>
    /\ PostIdle

\* _input_article_content: the body; a missing body editor is only warned
\* about, and so is the failure of all three input methods
InputBody ==
    /\ pc = "post_body"
    /\ p_env.body_editor \in {"entered", "not_found", "all_methods_fail"}
    /\ body_entered' = (p_env.body_editor = "entered")
    /\ pc' = "post_save"
    /\ UNCHANGED <<browser_open, context_open, header_uploaded, title_entered,
                   save_action, draft_saved, p_result>>
    /\ PostIdle

\* editor_element.click() raises
InputBodyRaises ==
    /\ pc = "post_body"
    /\ p_env.body_editor = "click_raises"
    /\ pc' = "post_except"
    /\ UNCHANGED <<browser_open, context_open, header_uploaded, title_entered,
                   body_entered, save_action, draft_saved, p_result>>
    /\ PostIdle

\* _save_draft: click the draft button; without a button, or when the click
\* raises, press Meta+s
SaveDraft ==
    /\ pc = "post_save"
    /\ p_env.save \in {"button", "no_button", "click_raises"}
    /\ save_action' = IF p_env.save = "button" THEN "button" ELSE "shortcut"
    /\ draft_saved' = IF p_env.save = "button" THEN TRUE ELSE p_env.shortcut_saves
    /\ pc' = "post_return"
    /\ UNCHANGED <<browser_open, context_open, header_uploaded, title_entered,
                   body_entered, p_result>>
    /\ PostIdle

\* page.keyboard.press("Meta+s") in the except branch of _save_draft raises
SaveDraftRaises ==
    /\ pc = "post_save"
    /\ p_env.save = "shortcut_raises"
    /\ pc' = "post_except"
    /\ UNCHANGED <<browser_open, context_open, header_uploaded, title_entered,
                   body_entered, save_action, draft_saved, p_result>>
    /\ PostIdle

\* return True
ReturnTrue ==
    /\ pc = "post_return"
    /\ p_result' = "True"
    /\ pc' = "post_finally"
    /\ UNCHANGED <<browser_open, context_open, header_uploaded, title_entered,
                   body_entered, save_action, draft_saved>>
    /\ PostIdle

\* except Exception: page.screenshot(...); raise
ExceptReraise ==
    /\ pc = "post_except"
    /\ p_result' = "raised"
    /\ pc' = "post_finally"
    /\ UNCHANGED <<browser_open, context_open, header_uploaded, title_entered,
                   body_entered, save_action, draft_saved>>
    /\ PostIdle

\* finally: context.close(); browser.close()
FinallyClose ==
    /\ pc = "post_finally"
    /\ context_open' = FALSE
    /\ browser_open' = FALSE
    /\ pc' = "post_done"
    /\ UNCHANGED <<header_uploaded, title_entered, body_entered, save_action,
                   draft_saved, p_result>>
    /\ PostIdle

NextPost ==
    \/ StateFileMissing
    \/ Launch
    \/ NewContext
    \/ NewContextRaises
    \/ Navigate
    \/ NavigateRaises
    \/ NoHeaderImage
    \/ UploadHeaderImage
    \/ UploadFailureIgnored
    \/ InputTitle
    \/ InputTitleRaises
    \/ InputBody
    \/ InputBodyRaises
    \/ SaveDraft
    \/ SaveDraftRaises
    \/ ReturnTrue
    \/ ExceptReraise
    \/ FinallyClose

SpecPost == InitPost /\ [][NextPost]_vars

(***************************************************************************)
(* Successive calls of _wrap_text in one process, with the same font and   *)
(* width budget.  first_result remembers the first call's title and        *)
(* returned lines, and whether a call on another title has run since.      *)
(***************************************************************************)
MaxCalls == 3           \* calls of _wrap_text in one session

\* "", "aaが", "漢漢", and the shortest title of the module's own test run
RewrapTitles == { <<>>, <<97, 97, 12364>>, <<28450, 28450>>, TitleShort }

InitRewrap ==
    /\ pc = "wrap"
    /\ text \in RewrapTitles
    /\ font \in Fonts
    /\ max_width \in 1..MaxWidthBudget
    /\ lines = <<>>
    /\ current_line = <<>>
    /\ i = 0
    /\ result = <<>>
    /\ run_no = 1
    /\ first_result = <<>>
    /\ IdleBreak /\ IdleSizer /\ IdleLayout /\ IdleGradient
    /\ IdleHeader /\ IdleMain /\ IdlePost

StaleLines == lines

\* lines = []
FreshLines == <<>>

\* The previous call has returned; _wrap_text is called again and starts
\* from its own fresh locals: lines = [], current_line = "", i = 0.
WrapCallAgain ==
    /\ pc = "wrapped"
    /\ run_no >= 1 /\ run_no < MaxCalls
    /\ run_no' = run_no + 1
    /\ first_result' =
          IF run_no = 1
          THEN [text |-> text, lines |-> result, interleaved |-> FALSE]
          ELSE [first_result EXCEPT !.interleaved = @ \/ text # first_result.text]
    /\ text' \in RewrapTitles
    /\ lines' = FreshLines
    /\ current_line' = <<>>
    /\ i' = 0
    /\ result' = <<>>
    /\ pc' = "wrap"
    /\ UNCHANGED <<font, max_width, breakVars, sizerVars, layoutVars, gradVars,
                   headerVars, mainVars, postVars>>

NextRewrap ==
    \/ NextWrap
    \/ WrapCallAgain

SpecRewrap == InitRewrap /\ [][NextRewrap]_vars

(***************************************************************************)
(* Properties of the line wrapper.                                         *)
(***************************************************************************)
Last(s) == s[Len(s)]

\* Every break position 1..Len(buffer) is ruled out by the prohibition
\* tables when char is the overflowing character.
NoSurvivor(buffer, char) ==
    \A p \in 1..Len(buffer) :
        \/ (IF p < Len(buffer) THEN buffer[p + 1] ELSE char) \in LINE_START_PROHIBITED
        \/ buffer[p] \in LINE_END_PROHIBITED

\* C1 as stated: no returned line but the first begins with a character of
\* LINE_START_PROHIBITED, unless the title has length 1.
C1_NoProhibitedLineStart ==
    pc = "wrapped" =>
        \A k \in 2..Len(result) :
            Len(text) = 1 \/ result[k] = <<>> \/ result[k][1] \notin LINE_START_PROHIBITED

\* C1 amended: a returned line other than the first begins with a character
\* of LINE_START_PROHIBITED only when the line before it offers no break
\* position that survives the prohibition rules with that character as the
\* overflowing one (the selector's fallback break).
C1_ProhibitedStartOnlyByFallback ==
    pc = "wrapped" =>
        \A k \in 2..Len(result) :
            (result[k] # <<>> /\ result[k][1] \in LINE_START_PROHIBITED)
                => NoSurvivor(result[k - 1], result[k][1])

C1_Witness ==
    /\ pc = "wrapped"
    /\ \E k \in 2..Len(result) : result[k][1] \in LINE_START_PROHIBITED
    /\ \E k \in 2..Len(result) :
           /\ Len(result[k]) >= 2
           /\ result[k][1] \notin LINE_START_PROHIBITED
           /\ result[k][2] \in LINE_START_PROHIBITED

\* C2 as stated: no returned line but the last ends with a character of
\* LINE_END_PROHIBITED, unless the title has length 1.
C2_NoProhibitedLineEnd ==
    pc = "wrapped" =>
        \A k \in 1..(Len(result) - 1) :
            Len(text) = 1 \/ result[k] = <<>> \/ Last(result[k]) \notin LINE_END_PROHIBITED

\* C2 amended: a returned line other than the last ends with a character of
\* LINE_END_PROHIBITED only when that line offers no break position that
\* survives the prohibition rules with the next line's first character as
\* the overflowing one (the selector's fallback break).
C2_ProhibitedEndOnlyByFallback ==
    pc = "wrapped" =>
        \A k \in 1..(Len(result) - 1) :
            (result[k] # <<>> /\ Last(result[k]) \in LINE_END_PROHIBITED)
                => NoSurvivor(result[k], result[k + 1][1])

C2_Witness ==
    /\ pc = "wrapped"
    /\ \E k \in 1..(Len(result) - 1) : Last(result[k]) \in LINE_END_PROHIBITED
    /\ \E k \in 2..Len(result) :
           /\ result[k][1] \in LINE_END_PROHIBITED
           /\ Last(result[k - 1]) \notin LINE_END_PROHIBITED

\* C3 as stated: every returned line measures at most max_width, except a
\* line of a single character that alone exceeds max_width.
C3_LineWidthWithinBudget ==
    pc = "wrapped" =>
        \A k \in 1..Len(result) :
            \/ TextWidth(result[k], font) <= max_width
            \/ Len(result[k]) = 1

\* C4: the wrapper returns at least one line, and for the empty title
\* exactly one line, the empty string.
C4_AtLeastOneLine ==
    pc = "wrapped" =>
        /\ Len(result) >= 1
        /\ text = <<>> => result = << <<>> >>

C4_Witness ==
    pc = "wrapped" /\ text = <<>> /\ lines = <<>> /\ result = << <<>> >>

\* C6: when every candidate position is rejected, the selector returns
\* len(buffer), and the wrapper emits the whole buffer as one line and
\* starts the next buffer with the overflowing character alone.
C6_FallbackBreak ==
    [][ ( /\ pc = "wrap" /\ i < Len(text)
          /\ TestWidth > max_width
          /\ current_line # <<>>
          /\ NoSurvivor(current_line, Char) )
        => ( /\ FindBestBreakPoint(current_line, text, i) = Len(current_line)
             /\ lines' = Append(lines, current_line)
             /\ current_line' = <<Char>> ) ]_vars

C6_Witness ==
    /\ pc = "wrap"
    /\ lines # <<>>
    /\ Len(Last(lines)) >= 2
    /\ Len(current_line) = 1
    /\ NoSurvivor(Last(lines), current_line[1])

(***************************************************************************)
(* Properties of the break-point selector.                                 *)
(***************************************************************************)
\* The character starting the next line / ending the line at position p of
\* the selector's inputs.
Starter(p) ==
    IF p < Len(b_current_line) THEN b_current_line[p + 1] ELSE b_full_text[Len(b_full_text)]

Ender(p) == b_current_line[p]

Survivors ==
    { p \in 1..Len(b_current_line) :
        /\ Starter(p) \notin LINE_START_PROHIBITED
        /\ Ender(p) \notin LINE_END_PROHIBITED }

ClaimedScore(p) ==
    LET e == GetCharType(Ender(p))
        s == GetCharType(Starter(p))
    IN  p - (IF e = "kanji" /\ s = "kanji" THEN 100 ELSE 0)
          - (IF (e = "katakana" /\ s = "katakana") \/ (e = "alpha" /\ s = "alpha")
             THEN 50 ELSE 0)
          + (IF e = "hiragana" /\ s = "kanji" THEN 30 ELSE 0)
          + (IF e # s THEN 10 ELSE 0)

HasOverflowChar == b_next_char_idx < Len(b_full_text)

\* C5: given a non-empty buffer and an overflowing character with at least
\* one surviving candidate, the selector returns the surviving position of
\* maximal score, and among equal maximal scores the highest position.
C5_MaxScoreHighestPosition ==
    (pc = "selected" /\ b_current_line # <<>> /\ HasOverflowChar /\ Survivors # {}) =>
        /\ break_pos \in Survivors
        /\ \A p \in Survivors :
               \/ ClaimedScore(p) < ClaimedScore(break_pos)
               \/ ClaimedScore(p) = ClaimedScore(break_pos) /\ p <= break_pos

\* A call in which two surviving positions tie for the maximal score.
C5_Witness ==
    /\ pc = "selected" /\ b_current_line # <<>> /\ HasOverflowChar
    /\ break_pos \in Survivors
    /\ \E p \in Survivors :
           p < break_pos /\ ClaimedScore(p) = ClaimedScore(break_pos)

(***************************************************************************)
(* Properties of the adaptive sizer.                                       *)
(***************************************************************************)
\* C7: the font size is the step function of the character count n:
\* n <= 10 -> 120, 11..15 -> 100, 16..20 -> 85, 21..25 -> 70, 26..30 -> 60,
\* n > 30 -> 50; it is one of these six sizes and no shorter title gets a
\* smaller size.
C7_StepFunction ==
    pc = "sized" =>
        LET n == Len(title)
        IN  /\ n \in 0..10  => font_size = 120
            /\ n \in 11..15 => font_size = 100
            /\ n \in 16..20 => font_size = 85
            /\ n \in 21..25 => font_size = 70
            /\ n \in 26..30 => font_size = 60
            /\ n > 30       => font_size = 50
            /\ font_size \in {120, 100, 85, 70, 60, 50}
            /\ \A m \in 0..n : CalculateFontSize(Run(12354, m)) >= font_size

C7_Witness ==
    pc = "sized" /\ Len(title) = 20 /\ font_size = 85

\* C8 as stated: the third test title gets the 85pt tier.
C8_StudyTitleGets85 ==
    (pc = "sized" /\ title = TitleStudy) => font_size = 85

\* C8 amended: the third test title has 21 characters and gets the 70pt
\* tier.
C8_StudyTitleGets70 ==
    (pc = "sized" /\ title = TitleStudy) => (Len(title) = 21 /\ font_size = 70)

C8_Witness ==
    pc = "sized" /\ title = TitleStudy /\ font_size = 70

(***************************************************************************)
(* Properties of the layout composer.                                      *)
(***************************************************************************)
\* q is floor(a / 2)
IsFloorHalf(q, a) == 2 * q <= a /\ a < 2 * q + 2

\* Heights plus spacing of the lines before line k.
RECURSIVE OffsetBefore(_)
OffsetBefore(k) ==
    IF k = 1 THEN 0 ELSE OffsetBefore(k - 1) + wrapped_lines[k - 1].h + 20

RECURSIVE HeightsUpTo(_)
HeightsUpTo(k) ==
    IF k = 0 THEN 0 ELSE HeightsUpTo(k - 1) + wrapped_lines[k].h

\* C9: total = sum of the line heights + 20 * (n - 1), start_y =
\* floor((IMAGE_HEIGHT - total) / 2) also when negative, and line k is
\* drawn, in order, at x = floor((IMAGE_WIDTH - w_k) / 2) and
\* y = start_y + the heights and 20px gaps of the lines before it.
C9_CenteredLayout ==
    pc = "laid_out" =>
        LET n == Len(wrapped_lines)
        IN  /\ total_height = HeightsUpTo(n) + 20 * (n - 1)
            /\ n = 1 => total_height = wrapped_lines[1].h
            /\ IsFloorHalf(start_y, IMAGE_HEIGHT - total_height)
            /\ Len(drawn) = n
            /\ \A k \in 1..n :
                   /\ drawn[k].line = k
                   /\ IsFloorHalf(drawn[k].x, IMAGE_WIDTH - wrapped_lines[k].w)
                   /\ drawn[k].y = start_y + OffsetBefore(k)

\* A block taller than the canvas, of odd excess, with an overwide line.
C9_Witness ==
    /\ pc = "laid_out"
    /\ Len(drawn) = 3
    /\ start_y < 0
    /\ 2 * start_y # IMAGE_HEIGHT - total_height
    /\ drawn[3].x < 0
    /\ drawn[3].y > drawn[2].y

(***************************************************************************)
(* Properties of the gradient background.                                  *)
(***************************************************************************)
Between(v, a, b) == (a <= v /\ v <= b) \/ (b <= v /\ v <= a)

\* C10: row 0 has the start colour, the last row is within 1 of the end
\* colour in every channel, and down the rows every channel is monotone
\* toward its end value and stays between its start and end value.
C10_GradientRows ==
    /\ Len(image) >= 1 => image[1] = GRADIENT_START
    /\ pc = "gradient_done" =>
          /\ Len(image) = IMAGE_HEIGHT
          /\ \A c \in 1..3 :
                 /\ image[IMAGE_HEIGHT][c] - GRADIENT_END[c] <= 1
                 /\ GRADIENT_END[c] - image[IMAGE_HEIGHT][c] <= 1
    /\ \A k \in 1..Len(image) : \A c \in 1..3 :
          /\ Between(image[k][c], GRADIENT_START[c], GRADIENT_END[c])
          /\ k > 1 =>
                IF GRADIENT_END[c] >= GRADIENT_START[c]
                THEN image[k][c] >= image[k - 1][c]
                ELSE image[k][c] <= image[k - 1][c]

C10_Witness ==
    /\ pc = "gradient_done"
    /\ image[1] = GRADIENT_START
    /\ image[IMAGE_HEIGHT] = <<117, 75, 162>>
    /\ image[IMAGE_HEIGHT \div 2 + 1] = <<110, 100, 198>>

(***************************************************************************)
(* Properties of create_header_image.                                      *)
(***************************************************************************)
\* The first candidate background path that exists holds an unreadable file.
FirstBackgroundCorrupt ==
    \E k \in 1..Len(BackgroundExts) :
        /\ bg_files[k] = "corrupt"
        /\ \A j \in 1..(k - 1) : bg_files[j] = "absent"

NoFontLoads == \A k \in 1..NumFontPaths : font_files[k] # "loads"

\* C11: the background resolver never fails; with an unreadable file at a
\* candidate path it returns the gradient and create_header_image succeeds
\* as when no file exists.
C11_BackgroundNeverFails ==
    (pc # "header_load" /\ FirstBackgroundCorrupt) =>
        /\ h_image = "gradient"
        /\ save_ok => pc # "header_raised"

\* C12 as stated: when no candidate font exists or loads, layout aborts:
\* nothing is wrapped, drawn or saved.
C12_NoFontAbortsLayout ==
    (NoFontLoads /\ pc \in {"header_save", "header_returned", "header_raised"}
        /\ h_image # "raised") =>
        /\ pc = "header_raised"
        /\ ~h_wrapped /\ ~h_drawn /\ ~h_saved

\* C12 amended: when no candidate font exists or loads, _get_font returns
\* the library's default font and layout goes on: the title is wrapped and
\* drawn, and the image is saved unless the save itself fails.
C12_NoFontUsesDefault ==
    (NoFontLoads /\ pc \in {"header_save", "header_returned", "header_raised"}
        /\ h_image # "raised") =>
        /\ h_font = DefaultFont
        /\ h_wrapped /\ h_drawn
        /\ save_ok => pc # "header_raised"
        /\ pc = "header_returned" => h_saved

C12_Witness ==
    /\ pc = "header_returned"
    /\ NoFontLoads
    /\ \E k \in 1..NumFontPaths : font_files[k] = "broken"
    /\ h_font = DefaultFont /\ h_saved


(***************************************************************************)
(* Properties of main                                                      *)
(***************************************************************************)
Calls(function, outcome) ==
    { k \in DOMAIN call_log : call_log[k][2] = function /\ call_log[k][3] = outcome }

CallsFor(article) == { k \in DOMAIN call_log : call_log[k][1] = article }

MarkCalls == { k \in DOMAIN call_log : call_log[k][2] = "mark_as_done" }

Raisers == { k \in DOMAIN call_log :
               /\ call_log[k][3] = "raised"
               /\ call_log[k][2] # "mark_as_done" }

\* C13: mark_as_done is invoked for an article only after format_article,
\* create_header_image and post_draft_to_note have each returned for that
\* article, in that order; when one of them raised for an article,
\* mark_as_done is never invoked for that article.
C13_MarkOnlyAfterAllReturned ==
    /\ \A k \in MarkCalls :
          /\ k >= 4
          /\ call_log[k - 3] = <<call_log[k][1], "format_article", "returned">>
          /\ call_log[k - 2] = <<call_log[k][1], "create_header_image", "returned">>
          /\ call_log[k - 1] = <<call_log[k][1], "post_draft_to_note", "returned">>
    /\ \A k \in Raisers : \A j \in MarkCalls : call_log[j][1] # call_log[k][1]

\* A finished run in which one article was marked done and the posting of
\* another one raised.
C13_Witness ==
    /\ pc = "main_returned"
    /\ Calls("mark_as_done", "returned") # {}
    /\ Calls("post_draft_to_note", "raised") # {}

FetchOrder(n) == [k \in 1..n |-> k]

\* C18: an exception raised by format_article, create_header_image,
\* post_draft_to_note or mark_as_done does not end the run: the articles are
\* taken up once each, in fetch order, and eventually main has ended with
\* every fetched article taken up.
C18_EveryArticleTakenUp ==
    /\ [](taken = FetchOrder(Len(taken)))
    /\ <>(pc \in {"main_returned", "main_raised"} /\ taken = FetchOrder(Len(articles)))

\* A finished run of three articles in which the first one's formatting and
\* the second one's marking raised.
C18_Witness ==
    /\ pc = "main_returned"
    /\ Len(articles) = 3
    /\ taken = <<1, 2, 3>>
    /\ \E k \in Calls("format_article", "raised") : call_log[k][1] = 1
    /\ \E k \in Calls("mark_as_done", "raised") : call_log[k][1] = 2

\* C19: when main has finished the article loop, success_count + error_count
\* is the number of fetched articles, success_count is the number of
\* articles for which mark_as_done returned, and main returns 0 exactly when
\* error_count is 0.
C19_EveryArticleCountedOnce ==
    (pc = "main_returned" /\ articles # <<>>) =>
        /\ success_count + error_count = Len(articles)
        /\ success_count = Cardinality(Calls("mark_as_done", "returned"))
        /\ \A k \in Calls("mark_as_done", "returned") :
              \A j \in Calls("mark_as_done", "returned") :
                  call_log[k][1] = call_log[j][1] => k = j
        /\ (exit_code = 0) <=> (error_count = 0)

\* A finished run with successes and errors.
C19_Witness ==
    /\ pc = "main_returned"
    /\ success_count >= 1
    /\ error_count >= 2
    /\ exit_code = 1

BlankArticles == { a \in 1..art_i : Strip(articles[a].content) = <<>> }

\* C20: an article whose content is empty or whitespace-only is passed to
\* none of format_article, create_header_image, post_draft_to_note and
\* mark_as_done; it is counted as an error; and the loop goes on to the
\* articles after it.
C20_BlankContentSkipped ==
    /\ \A a \in BlankArticles : CallsFor(a) = {}
    /\ pc \in {"loop", "main_returned"} =>
          error_count = Cardinality(BlankArticles)
                          + Cardinality({ k \in DOMAIN call_log : call_log[k][3] = "raised" })
    /\ (pc = "main_returned" /\ articles # <<>>) => Len(taken) = Len(articles)

\* A finished run whose first article was whitespace-only and whose second
\* article was posted and marked done.
C20_Witness ==
    /\ pc = "main_returned"
    /\ Len(articles) >= 2
    /\ articles[1].content = <<32, 10>>
    /\ error_count = 1
    /\ \E k \in Calls("mark_as_done", "returned") : call_log[k][1] = 2


(***************************************************************************)
(* Properties of post_draft_to_note                                        *)
(***************************************************************************)
Posted == title_entered /\ body_entered /\ draft_saved

\* C14: post_draft_to_note returns True when the draft was posted and False
\* otherwise; a failed navigation, content input or draft save yields the
\* value False.
C14_ReturnsTrueOrFalse ==
    pc = "post_done" => p_result = (IF Posted THEN "True" ELSE "False")


(***************************************************************************)
(* Properties of repeated calls of the line wrapper                        *)
(***************************************************************************)
\* C15: a later call of the line wrapper on the title of the first call,
\* with the same font and width budget, returns the lines the first call
\* returned, whatever titles were wrapped in between.
C15_SameInputsSameLines ==
    (pc = "wrapped" /\ run_no > 1 /\ text = first_result.text) =>
        result = first_result.lines

\* The third call repeats the first call's title after a call on another
\* title, and the title is wrapped onto several lines.
C15_Witness ==
    /\ pc = "wrapped"
    /\ run_no = 3
    /\ text = first_result.text
    /\ first_result.interleaved
    /\ Len(result) >= 2
    /\ result = first_result.lines


RECURSIVE Concat(_)
Concat(ls) == IF ls = <<>> THEN <<>> ELSE Head(ls) \o Concat(Tail(ls))

\* C16: the lines the line wrapper returns, concatenated in order, are the
\* title (while it runs, the finished lines and the buffer together are the
\* characters read so far), and for a non-empty title no returned line is
\* empty.
C16_LinesPartitionTitle ==
    /\ pc = "wrap" => Concat(lines) \o current_line = SubSeq(text, 1, i)
    /\ pc = "wrapped" =>
          /\ Concat(result) = text
          /\ text # <<>> => \A k \in DOMAIN result : result[k] # <<>>

\* "aaが" was split inside the buffer and re-seeded with the remainder and
\* the overflowing character.
C16_Witness ==
    /\ pc = "wrapped"
    /\ text = <<97, 97, 12364>>
    /\ result = << <<97>>, <<97, 12364>> >>


(***************************************************************************)
(* Properties of the break-point selector on long buffers                  *)
(***************************************************************************)
\* The character that starts the next line when the buffer is broken at p;
\* NoChar when p is the end of the buffer and the text ends there.
StarterOrNone(p) ==
    IF p < Len(b_current_line) THEN b_current_line[p + 1]
    ELSE IF HasOverflowChar THEN b_full_text[b_next_char_idx + 1]
    ELSE NoChar

Permitted ==
    { p \in 1..Len(b_current_line) :
        /\ StarterOrNone(p) \notin LINE_START_PROHIBITED
        /\ b_current_line[p] \notin LINE_END_PROHIBITED }

IsKanjiSplit(p) ==
    /\ p \in 1..Len(b_current_line)
    /\ IsKanji(b_current_line[p])
    /\ StarterOrNone(p) # NoChar
    /\ IsKanji(StarterOrNone(p))

\* C17: for a buffer of at most 50 characters, the selector returns a
\* position between two kanji only if every position that survives the
\* prohibition rejection is a position between two kanji.
C17_KanjiSplitOnlyWhenForced ==
    (pc = "selected" /\ Len(b_current_line) <= 50 /\ IsKanjiSplit(break_pos)) =>
        \A p \in Permitted : IsKanjiSplit(p)

\* A buffer of 50 characters whose only permitted positions lie between
\* kanji, the other positions being rejected: the compound is split.
C17_Witness ==
    /\ pc = "selected"
    /\ Len(b_current_line) = 50
    /\ IsKanjiSplit(break_pos)
    /\ break_pos \in Permitted
    /\ Permitted # 1..Len(b_current_line)
    /\ \E p \in 1..Len(b_current_line) : ~IsKanjiSplit(p)


(***************************************************************************)
(* Properties of main's temporary directories                              *)
(***************************************************************************)
\* C21: the temporary directory made for an article is removed before the
\* next article is taken up and before main returns, whichever way the
\* article's processing went: while an article is processed its directory
\* is the only one there is, and between articles and after main has ended
\* there is none.
C21_TempDirRemoved ==
    /\ pc \in {"content", "header", "post", "mark", "except", "finally"} =>
          temp_dirs = {art_i}
    /\ pc \in {"main_start", "loop", "main_returned", "main_raised"} =>
          temp_dirs = {}

\* A finished run of three articles: one marked done, one skipped for its
\* blank content, and one whose processing raised.
C21_Witness ==
    /\ pc = "main_returned"
    /\ Len(articles) = 3
    /\ success_count = 1
    /\ Cardinality(BlankArticles) = 1
    /\ Cardinality({ k \in DOMAIN call_log : call_log[k][3] = "raised" }) = 1
    /\ temp_dirs = {}


(***************************************************************************)
(* Properties of post_draft_to_note's result                               *)
(***************************************************************************)
\* C22: post_draft_to_note returns True only if the title and the body were
\* both entered into the editor before the draft-save action was issued.
C22_TrueOnlyIfTitleAndBodyEntered ==
    p_result = "True" => (title_entered /\ body_entered)

\* Everything but the header-image upload goes well: the session is valid,
\* the editor page opens, title and body are entered and the save raises
\* nothing.
OnlyUploadFails ==
    /\ p_env.header_path
    /\ p_env.upload = "raises"
    /\ p_env.state_file = "valid"
    /\ p_env.navigation \in {"editor", "no_editor"}
    /\ p_env.title_input = "found"
    /\ p_env.body_editor = "entered"
    /\ p_env.save \in {"button", "no_button", "click_raises"}

\* C23: when only _upload_header_image raises, the title and the body are
\* still entered, the draft-save action is still issued and the call
\* returns True; and once the call has ended, by a return or by an
\* exception, the browser context and the browser are closed.
C23_UploadFailureDoesNotFailPost ==
    pc = "post_done" =>
        /\ ~context_open /\ ~browser_open
        /\ OnlyUploadFails =>
              /\ p_result = "True"
              /\ ~header_uploaded
              /\ title_entered /\ body_entered
              /\ save_action # "none"
              /\ p_env.save = "button" => draft_saved

\* A call whose header-image upload raised and that returned True with the
\* draft saved by the button, browser and context closed.
C23_Witness ==
    /\ pc = "post_done"
    /\ OnlyUploadFails
    /\ p_env.save = "button"
    /\ p_result = "True"
    /\ Posted
    /\ ~header_uploaded
    /\ ~context_open /\ ~browser_open

=============================================================================
